---- MODULE Spec2Model ----
(***************************************************************************)
(* Model of the Board class of node-unipi-neuron (the class that keeps its *)
(* cache in `state`): capability discovery, the state and counter caches,  *)
(* the two poll operations and the verified coil write.                    *)
(*                                                                         *)
(* Strings are sequences of one-character strings.  JavaScript values are  *)
(* pairs <<kind, n>>: a number, NaN or undefined.                          *)
(***************************************************************************)
EXTENDS Integers, Sequences, FiniteSets, TLC

\* ------------------------------------------------------------------ bounds
\* Largest number of register reads outstanding at the transport.
MaxInFlight == 2
\* Largest number of external setPoint calls in one behaviour.
MaxCalls == 1
\* Largest `groups` argument of the constructor in SpecCoil.
MaxGroupId == 12

\* ------------------------------------------------------ JavaScript values
Num(n) == <<"num", n>>
NaN == <<"nan", 0>>
Undefined == <<"undefined", 0>>

\* a !== b on numbers, NaN and undefined: NaN differs from everything.
StrictNeq(a, b) == a # b \/ a = NaN \/ b = NaN

\* Boolean(x): undefined, NaN and 0 are false.
ToBoolean(x) == x[1] = "num" /\ x[2] # 0

DigitChars == <<"0", "1", "2", "3", "4", "5", "6", "7", "8", "9">>

RECURSIVE NumToString(_)
\* Number.prototype.toString() / string concatenation of a non-negative integer.
NumToString(n) ==
    IF n < 10 THEN <<DigitChars[n + 1]>>
    ELSE NumToString(n \div 10) \o <<DigitChars[(n % 10) + 1]>>

\* value.toString() of a cached value.
ValueToString(v) == IF v = NaN THEN <<"N", "a", "N">> ELSE NumToString(v[2])

DigitValue(c) == CHOOSE d \in 0..9 : DigitChars[d + 1] = c

IsDigit(c) == \E d \in 0..9 : DigitChars[d + 1] = c

RECURSIVE DecimalValue(_)
DecimalValue(s) ==
    IF Len(s) = 1 THEN DigitValue(s[1])
    ELSE 10 * DecimalValue(SubSeq(s, 1, Len(s) - 1)) + DigitValue(s[Len(s)])

\* The numeric coercion applied by `group - 1` and `num - 1` to a string.
ToNumber(s) ==
    IF s = Undefined THEN NaN
    ELSE IF s = <<>> THEN Num(0)
    ELSE IF \A i \in 1..Len(s) : IsDigit(s[i]) THEN Num(DecimalValue(s))
    ELSE NaN

\* ------------------------------------------------------------- dec2bin
RECURSIVE ToBinaryString(_)
\* parseInt(dec, 10).toString(2)
ToBinaryString(n) ==
    IF n < 2 THEN <<DigitChars[n + 1]>>
    ELSE ToBinaryString(n \div 2) \o <<DigitChars[(n % 2) + 1]>>

Zeros16 == [i \in 1..16 |-> "0"]

\* ('0000000000000000' + bin).slice(-16)
dec2bin(dec) ==
    LET padded == Zeros16 \o ToBinaryString(dec)
    IN  SubSeq(padded, Len(padded) - 15, Len(padded))

RECURSIVE ParseBinary(_)
\* parseInt(s, 2) of a non-empty string of binary digits.
ParseBinary(s) ==
    IF Len(s) = 0 THEN 0
    ELSE 2 * ParseBinary(SubSeq(s, 1, Len(s) - 1)) + DigitValue(s[Len(s)])

\* bin.slice(a, b) with 0-based a and exclusive b.
Slice(s, a, b) == SubSeq(s, a + 1, b)

\* bin.split('').reverse()
Reverse(s) == [i \in 1..Len(s) |-> s[Len(s) + 1 - i]]

\* parseInt(arr[i]) for 0-based i: a missing element parses to NaN.
ParseBit(arr, i) == IF i + 1 \in 1..Len(arr) THEN Num(DigitValue(arr[i + 1])) ELSE NaN

\* ------------------------------------------------------------ point ids
\* prefix + '.' + (i + 1)
PointId(prefix, n) == prefix \o <<".">> \o NumToString(n)

\* 'DI' + group.id and 'DO' + group.id
GroupPrefix(letters, gid) == letters \o NumToString(gid)

DI == <<"D", "I">>
DO == <<"D", "O">>

\* ---------------------------------------------------------------- state
VARIABLES
    device,      \* the capability words the board answers with, one pair per slot
    calls,       \* how many setPoint calls the application makes
    nGroups,     \* the constructor's `groups` argument
    connected,   \* the connect callback has run
    discovery,   \* group slots whose capability read is outstanding
    groups,      \* this.groups: slot -> capability record, holes left out
    state,       \* this.state: point id -> cached value
    counter,     \* this.counter: point id -> counter value
    reads,       \* register reads outstanding at the transport, in dispatch order
    emitted,     \* 'update' notifications emitted by the last step, in order,
                 \* each with the cache as its listener finds it
    last,        \* the last step: the operation or callback that ran and its input
    thrown,      \* exception raised by the last step: <<name, id in the message>>
    logged,      \* what the last step passed to error()
    chains,      \* one record per accepted setPoint call: its retry chain
    written      \* the client.writeCoil calls made by the last step, in order

vars == <<device, calls, nGroups, connected, discovery, groups, state, counter, reads,
          emitted, last, thrown, logged, chains, written>>

getState(st, id) == IF id \in DOMAIN st THEN st[id] ELSE Undefined

getCount(ct, id) == IF id \in DOMAIN ct THEN ct[id] ELSE Undefined

\* this.state[id] = value, for an id the cache does not hold yet only.
PutIfAbsent(st, id, value) ==
    IF id \in DOMAIN st THEN st
    ELSE [k \in DOMAIN st \cup {id} |-> IF k = id THEN value ELSE st[k]]

\* this.state[id] = value
Put(st, id, value) ==
    IF id \in DOMAIN st THEN [st EXCEPT ![id] = value]
    ELSE [k \in DOMAIN st \cup {id} |-> IF k = id THEN value ELSE st[k]]

\* this.groups.length: one more than the highest assigned slot.
GroupsLength(gs) ==
    IF DOMAIN gs = {} THEN 0
    ELSE 1 + CHOOSE i \in DOMAIN gs : \A j \in DOMAIN gs : j <= i

\* ------------------------------------------------------------ inputs
\* The boards: the two words each group slot answers a capability read with.
\* 0x1101 is 17 inputs and 1 output, 0x0111 is 1 input and 17 outputs.
WideInputs == <<<<4353, 4660>>>>
WideOutputs == <<<<273, 4660>>>>
\* 0x0201 then 0x0102: two groups of 2+1 and 1+2 points.
TwoGroups == <<<<513, 4660>>, <<258, 4660>>>>
\* 0x0001: one group of 1 output.
OneGroup == <<<<1, 4660>>>>

\* A board together with the number of setPoint calls the application makes.
Scenarios ==
    {[device |-> d, calls |-> 0] : d \in {WideInputs, WideOutputs, TwoGroups}}
        \cup {[device |-> OneGroup, calls |-> MaxCalls]}

\* Register pairs (data[0], data[1]) of a states read, of the words 0x0000,
\* 0x0006 and 0x8001.
StatePairs == {<<0, 0>>, <<6, 0>>, <<0, 32769>>, <<32769, 6>>}
\* Register pairs (data[2j], data[2j+1]) of a counters read.
CounterPairs == {<<0, 0>>, <<7, 1>>}
\* Codes carried by a transport error: one the exception table knows, one it does not.
ErrorCodes == {2, 12}

\* ------------------------------------------------------------ storeState
RECURSIVE StoreLoopEmitFirst(_, _, _, _, _, _)
\* The loop of storeState with the notification emitted before the value is
\* stored, the order of the store method of src/Board.js.
StoreLoopEmitFirst(st, em, prefix, arr, i, length) ==
    IF i >= length THEN [state |-> st, emitted |-> em]
    ELSE LET id == PointId(prefix, i + 1)
             value == ParseBit(arr, i)
             currentValue == getState(st, id)
         IN  IF StrictNeq(currentValue, value)
             THEN StoreLoopEmitFirst(Put(st, id, value),
                                     IF currentValue # Undefined
                                     THEN Append(em, [id |-> id,
                                                      value |-> ValueToString(value),
                                                      seen |-> getState(st, id),
                                                      cache |-> st])
                                     ELSE em,
                                     prefix, arr, i + 1, length)
             ELSE StoreLoopEmitFirst(st, em, prefix, arr, i + 1, length)

RECURSIVE StoreLoop(_, _, _, _, _, _)
\* The loop of storeState from index i on: st is this.state, em the
\* notifications emitted so far.
StoreLoop(st, em, prefix, arr, i, length) ==
    IF i >= length THEN [state |-> st, emitted |-> em]
    ELSE LET id == PointId(prefix, i + 1)
             value == ParseBit(arr, i)
             currentValue == getState(st, id)
             stored == Put(st, id, value)
         IN  IF StrictNeq(currentValue, value)
             THEN StoreLoop(stored,
                            IF currentValue # Undefined
                            THEN Append(em, [id |-> id,
                                             value |-> ValueToString(value),
                                             seen |-> getState(stored, id),
                                             cache |-> stored])
                            ELSE em,
                            prefix, arr, i + 1, length)
             ELSE StoreLoop(st, em, prefix, arr, i + 1, length)

storeState(st, em, prefix, value, length) ==
    StoreLoop(st, em, prefix, Reverse(dec2bin(value)), 0, length)

\* ------------------------------------------------------------ error log
\* MODUS_ERRNO: the codes that have a description.
MODUS_ERRNO == {1, 2, 3, 4, 5, 6, 7, 8, 10, 11}

\* err.message.split(' ')[-1]: index -1 of an array is not an element.
LastWord(words) == Undefined

\* parseInt(x) of undefined is NaN, of a decimal string its value.
ParseInt(x) == IF x = Undefined THEN NaN ELSE ToNumber(x)

\* The if (err) branch of a read callback: what is passed to error().
ReportError(code) ==
    LET message == <<<<"M", "o", "d", "b", "u", "s">>,
                     <<"e", "x", "c", "e", "p", "t", "i", "o", "n">>,
                     NumToString(code)>>
        key == ParseInt(LastWord(message))
        errdesc == IF key[1] = "num" /\ key[2] \in MODUS_ERRNO
                   THEN <<"description", key[2]>> ELSE Undefined
    IN  IF errdesc # Undefined THEN errdesc ELSE <<"raw", code>>

\* ------------------------------------------------------------ constructor
NoThrow == <<"none", <<>>>>

\* What `last` records: the operation, the group (for a timer: the chain) it
\* is about (0: none), the register words a successful read delivered and
\* whether the response was overtaken by that of a later read.
Step(op, group, data) == [op |-> op, group |-> group, data |-> data, late |-> FALSE]

\* The completion of a read: late tells whether a read of the same registers
\* dispatched after it had completed before it.
ReadStep(op, read, data) ==
    [op |-> op, group |-> read.group.id, data |-> data, late |-> read.overtaken]

\* The board constructed for scenario s, before its connect callback.
Constructed(s) ==
    /\ device = s.device
    /\ calls = s.calls
    /\ nGroups = Len(s.device)
    /\ connected = FALSE
    /\ discovery = {}
    /\ groups = <<>>
    /\ state = <<>>
    /\ counter = <<>>
    /\ reads = <<>>
    /\ emitted = <<>>
    /\ last = Step("constructor", 0, <<>>)
    /\ thrown = NoThrow
    /\ logged = <<>>
    /\ chains = <<>>
    /\ written = <<>>

Init == \E s \in Scenarios : Constructed(s)

\* The connect callback: one capability read per group slot.
Connect ==
    /\ ~connected
    /\ connected' = TRUE
    /\ discovery' = 0..(nGroups - 1)
    /\ last' = Step("connect", 0, <<>>)
    /\ emitted' = <<>>
    /\ thrown' = NoThrow
    /\ logged' = <<>>
    /\ written' = <<>>
    /\ UNCHANGED <<device, calls, nGroups, groups, state, counter, reads, chains>>

\* let start = 1001 + (i * 100)
CapabilityStart(i) == 1001 + (i * 100)

\* The two words the device holds at the capability address start.
DeviceWords(start) == device[((start - 1001) \div 100) + 1]

\* The record of slot i with the input count taken from the low byte and the
\* other fields numbered from the low end as well.
CapabilityLowFirst(i, word0, word1) ==
    LET bin == dec2bin(word0)
        ext == dec2bin(word1)
    IN  [id |-> i + 1,
         di |-> ParseBinary(Slice(bin, 8, 16)),
         do |-> ParseBinary(Slice(bin, 0, 8)),
         ai |-> ParseBinary(Slice(ext, 8, 12)),
         ao |-> ParseBinary(Slice(ext, 0, 8)),
         serial |-> ParseBinary(Slice(ext, 12, 16))]

\* The record built from the two words of a capability read of slot i.
Capability(i, word0, word1) ==
    LET bin == dec2bin(word0)
        ext == dec2bin(word1)
    IN  [id |-> i + 1,
         di |-> ParseBinary(Slice(bin, 0, 8)),
         do |-> ParseBinary(Slice(bin, 8, 16)),
         ai |-> ParseBinary(Slice(ext, 4, 8)),
         ao |-> ParseBinary(Slice(ext, 8, 16)),
         serial |-> ParseBinary(Slice(ext, 0, 4))]

\* this.groups[i] = record
SetSlot(gs, i, record) == [k \in DOMAIN gs \cup {i} |-> IF k = i THEN record ELSE gs[k]]

\* The capability read of slot i completes successfully.
DiscoveryOk(i) ==
    /\ i \in discovery
    /\ LET data == DeviceWords(CapabilityStart(i))
       IN  /\ groups' = SetSlot(groups, i, Capability(i, data[1], data[2]))
           /\ last' = Step("DiscoveryOk", i + 1, data)
    /\ discovery' = discovery \ {i}
    /\ emitted' = <<>>
    /\ thrown' = NoThrow
    /\ logged' = <<>>
    /\ written' = <<>>
    /\ UNCHANGED <<device, calls, nGroups, connected, state, counter, reads, chains>>

\* The capability read of slot i completes with a transport error.
DiscoveryError(i) ==
    /\ i \in discovery
    /\ \E code \in ErrorCodes : logged' = <<ReportError(code)>>
    /\ discovery' = discovery \ {i}
    /\ last' = Step("DiscoveryError", i + 1, <<>>)
    /\ emitted' = <<>>
    /\ thrown' = NoThrow
    /\ written' = <<>>
    /\ UNCHANGED <<device, calls, nGroups, connected, groups, state, counter, reads, chains>>

\* ------------------------------------------------------------ polls
\* The slots a poll loop visits before it ends: all of 0..length-1, or those
\* below the first hole, where reading a field of undefined throws.
FirstHole(gs) ==
    LET len == GroupsLength(gs)
        holes == {i \in 0..(len - 1) : i \notin DOMAIN gs}
    IN  IF holes = {} THEN len
        ELSE CHOOSE i \in holes : \A j \in holes : i <= j

PollThrows(gs) == FirstHole(gs) < GroupsLength(gs)

\* let countStart = [8, 103, 203]
countStart == <<8, 103, 203>>

CountStartOf(i) == IF i + 1 \in 1..Len(countStart) THEN Num(countStart[i + 1]) ELSE Undefined

StateRead(group) ==
    [kind |-> "state", start |-> Num((group.id - 1) * 100), count |-> 2, group |-> group,
     overtaken |-> FALSE]

CountRead(i, group) ==
    [kind |-> "count", start |-> CountStartOf(i), count |-> group.di * 2, group |-> group,
     overtaken |-> FALSE]

StateReadsIssued(gs) == [k \in 1..FirstHole(gs) |-> StateRead(gs[k - 1])]

CountReadsIssued(gs) == [k \in 1..FirstHole(gs) |-> CountRead(k - 1, gs[k - 1])]

\* The transport queue has room for the MaxInFlight reads of overlapping polls
\* of a single group; the polls of a board with more groups, or of one whose
\* points are being set, do not overlap.
QueueRoom == IF nGroups > 1 \/ calls > 0 THEN nGroups ELSE MaxInFlight

updateState ==
    /\ Len(reads) + FirstHole(groups) <= QueueRoom
    /\ reads' = reads \o StateReadsIssued(groups)
    /\ thrown' = IF PollThrows(groups) THEN <<"TypeError", <<>>>> ELSE NoThrow
    /\ last' = Step("updateState", 0, <<>>)
    /\ emitted' = <<>>
    /\ logged' = <<>>
    /\ written' = <<>>
    /\ UNCHANGED <<device, calls, nGroups, connected, discovery, groups, state, counter, chains>>

updateCount ==
    /\ Len(reads) + FirstHole(groups) <= QueueRoom
    /\ reads' = reads \o CountReadsIssued(groups)
    /\ thrown' = IF PollThrows(groups) THEN <<"TypeError", <<>>>> ELSE NoThrow
    /\ last' = Step("updateCount", 0, <<>>)
    /\ emitted' = <<>>
    /\ logged' = <<>>
    /\ written' = <<>>
    /\ UNCHANGED <<device, calls, nGroups, connected, discovery, groups, state, counter, chains>>

\* reads without its k-th element
Without(s, k) == SubSeq(s, 1, k - 1) \o SubSeq(s, k + 1, Len(s))

\* The reads left outstanding when the k-th completes: the transport answers
\* in any order, so reads of the same registers dispatched before it are
\* overtaken.
Complete(rs, k) ==
    Without([j \in 1..Len(rs) |->
                IF j < k /\ rs[j].kind = rs[k].kind /\ rs[j].group = rs[k].group
                THEN [rs[j] EXCEPT !.overtaken = TRUE] ELSE rs[j]], k)

\* The else branch of updateState's callback.
StoreStates(st, group, word0, word1) ==
    LET afterDI == storeState(st, <<>>, GroupPrefix(DI, group.id), word0, group.di)
    IN  storeState(afterDI.state, afterDI.emitted, GroupPrefix(DO, group.id), word1, group.do)

\* updateState's callback, resetting the cache when the read failed.
StateCallbackClearing(st, group, err, data) ==
    IF err # 0
    THEN [state |-> <<>>, emitted |-> <<>>, logged |-> <<ReportError(err)>>]
    ELSE LET stored == StoreStates(st, group, data[1], data[2])
         IN  [state |-> stored.state, emitted |-> stored.emitted, logged |-> <<>>]

\* updateState's callback: err is 0 or the error's code, data the words read.
StateCallback(st, group, err, data) ==
    IF err # 0
    THEN [state |-> st, emitted |-> <<>>, logged |-> <<ReportError(err)>>]
    ELSE LET stored == StoreStates(st, group, data[1], data[2])
         IN  [state |-> stored.state, emitted |-> stored.emitted, logged |-> <<>>]

\* The k-th outstanding read is a states read and completes successfully.
StateReadOk(k) ==
    /\ k \in 1..Len(reads)
    /\ reads[k].kind = "state"
    /\ \E data \in StatePairs :
          LET result == StateCallback(state, reads[k].group, 0, data)
          IN  /\ state' = result.state
              /\ emitted' = result.emitted
              /\ logged' = result.logged
              /\ last' = ReadStep("StateReadOk", reads[k], data)
    /\ reads' = Complete(reads, k)
    /\ thrown' = NoThrow
    /\ written' = <<>>
    /\ UNCHANGED <<device, calls, nGroups, connected, discovery, groups, counter, chains>>

\* The k-th outstanding read is a states read and completes with an error.
StateReadError(k) ==
    /\ k \in 1..Len(reads)
    /\ reads[k].kind = "state"
    /\ \E code \in ErrorCodes :
          LET result == StateCallback(state, reads[k].group, code, <<>>)
          IN  /\ state' = result.state
              /\ emitted' = result.emitted
              /\ logged' = result.logged
    /\ last' = ReadStep("StateReadError", reads[k], <<>>)
    /\ reads' = Complete(reads, k)
    /\ thrown' = NoThrow
    /\ written' = <<>>
    /\ UNCHANGED <<device, calls, nGroups, connected, discovery, groups, counter, chains>>

RECURSIVE CountLoop(_, _, _, _)
\* The loop of updateCount's callback from input j on; data is 1-based here.
CountLoop(ct, group, data, j) ==
    IF j >= group.di THEN ct
    ELSE CountLoop(Put(ct, PointId(GroupPrefix(DI, group.id), j + 1),
                       Num(data[j * 2 + 1] + data[j * 2 + 2])),
                   group, data, j + 1)

\* updateCount's callback, resetting the counters when the read failed.
CountCallbackClearing(ct, group, err, data) ==
    IF err # 0
    THEN [counter |-> <<>>, logged |-> <<ReportError(err)>>]
    ELSE [counter |-> CountLoop(ct, group, data, 0), logged |-> <<>>]

\* updateCount's callback: err is 0 or the error's code, data the words read.
CountCallback(ct, group, err, data) ==
    IF err # 0
    THEN [counter |-> ct, logged |-> <<ReportError(err)>>]
    ELSE [counter |-> CountLoop(ct, group, data, 0), logged |-> <<>>]

\* The k-th outstanding read is a counters read and completes successfully.
CountReadOk(k) ==
    /\ k \in 1..Len(reads)
    /\ reads[k].kind = "count"
    /\ \E pair \in CounterPairs :
          LET data == [n \in 1..reads[k].count |-> IF n % 2 = 1 THEN pair[1] ELSE pair[2]]
              result == CountCallback(counter, reads[k].group, 0, data)
          IN  /\ counter' = result.counter
              /\ logged' = result.logged
              /\ last' = ReadStep("CountReadOk", reads[k], data)
    /\ reads' = Complete(reads, k)
    /\ emitted' = <<>>
    /\ thrown' = NoThrow
    /\ written' = <<>>
    /\ UNCHANGED <<device, calls, nGroups, connected, discovery, groups, state, chains>>

\* The k-th outstanding read is a counters read and completes with an error.
CountReadError(k) ==
    /\ k \in 1..Len(reads)
    /\ reads[k].kind = "count"
    /\ \E code \in ErrorCodes :
          LET result == CountCallback(counter, reads[k].group, code, <<>>)
          IN  /\ counter' = result.counter
              /\ logged' = result.logged
    /\ last' = ReadStep("CountReadError", reads[k], <<>>)
    /\ reads' = Complete(reads, k)
    /\ emitted' = <<>>
    /\ thrown' = NoThrow
    /\ written' = <<>>
    /\ UNCHANGED <<device, calls, nGroups, connected, discovery, groups, state, chains>>

\* ------------------------------------------------------------ set
\* validate(id) with the check left out.
validateNothing(st, id) == <<"none", <<>>>>

\* validate(id): the exception it raises, if any.
validate(st, id) ==
    IF getState(st, id) = Undefined THEN <<"SyntaxError", id>> ELSE NoThrow

\* The position of the first '.' in id, or Len(id) + 1.
FirstDot(id) ==
    IF \E p \in 1..Len(id) : id[p] = "."
    THEN CHOOSE p \in 1..Len(id) : id[p] = "." /\ \A q \in 1..(p - 1) : id[q] # "."
    ELSE Len(id) + 1

\* id.split('.')[0]
SplitHead(id) == SubSeq(id, 1, FirstDot(id) - 1)

\* id.split('.')[1]: the text between the first '.' and the next, if any.
SplitSecond(id) ==
    IF FirstDot(id) > Len(id) THEN Undefined
    ELSE LET rest == SubSeq(id, FirstDot(id) + 1, Len(id))
         IN  SubSeq(rest, 1, FirstDot(rest) - 1)

\* arr[0].substr(arr[0].length - 1, 1)
LastChar(s) == IF Len(s) = 0 THEN <<>> ELSE <<s[Len(s)]>>

\* The coil address computed for ids of outputs only.
CoilIdOutputsOnly(id) ==
    LET group == ToNumber(LastChar(SplitHead(id)))
        num == ToNumber(SplitSecond(id))
    IN  IF group = NaN \/ num = NaN \/ SubSeq(id, 1, 2) # DO THEN NaN
        ELSE Num((group[2] - 1) * 100 + (num[2] - 1))

\* (group - 1) * 100 + (num - 1)
CoilId(id) ==
    LET group == ToNumber(LastChar(SplitHead(id)))
        num == ToNumber(SplitSecond(id))
    IN  IF group = NaN \/ num = NaN THEN NaN
        ELSE Num((group[2] - 1) * 100 + (num[2] - 1))

\* if (retries <= 5): one retry too many.
MayRetryOnceMore(retries) == retries <= 5

\* if (retries < 5)
MayRetry(retries) == retries < 5

\* 100 * (retries + 1)
Delay(retries) == 100 * (retries + 1)

\* this.getState(id) !== value, without Boolean(): a number is never
\* strictly equal to a boolean.
NeedsRetryUncoerced(st, id, value) == TRUE

\* Boolean(this.getState(id)) !== value
NeedsRetry(st, id, value) == ToBoolean(getState(st, id)) # value

\* One run of set(id, value, retries): the exception raised, the coil
\* writes made and the delay of the timer scheduled (0: none).
set(st, id, value, retries) ==
    IF validate(st, id) # NoThrow
    THEN [thrown |-> validate(st, id), writes |-> <<>>, timer |-> 0]
    ELSE [thrown |-> NoThrow,
          writes |-> <<[coilId |-> CoilId(id), value |-> value]>>,
          timer |-> IF MayRetry(retries) THEN Delay(retries) ELSE 0]

\* Ids the application passes to setPoint: the ids the cache holds, an
\* output the board does not have and an input it does not have.
CallIds ==
    DOMAIN state \cup {PointId(GroupPrefix(DO, 1), 2), PointId(GroupPrefix(DI, 1), 1)}

Tag(c, writes) == [k \in 1..Len(writes) |-> [chain |-> c] @@ writes[k]]

\* The application calls set(id, value).
SetPoint(id, value) ==
    /\ Len(chains) < calls
    /\ LET run == set(state, id, value, 0)
           c == Len(chains) + 1
       IN  /\ thrown' = run.thrown
           /\ written' = Tag(c, run.writes)
           /\ chains' = IF run.thrown = NoThrow
                        THEN Append(chains, [id |-> id, value |-> value, retries |-> 0,
                                             writes |-> Len(run.writes),
                                             timer |-> run.timer,
                                             delays |-> IF run.timer = 0 THEN <<>>
                                                        ELSE <<run.timer>>,
                                             matched |-> FALSE])
                        ELSE chains
    /\ last' = Step("set", 0, <<>>)
    /\ emitted' = <<>>
    /\ logged' = <<>>
    /\ UNCHANGED <<device, calls, nGroups, connected, discovery, groups, state, counter, reads>>

\* The verification timer of chain c fires.
TimerFires(c) ==
    /\ c \in 1..Len(chains)
    /\ chains[c].timer # 0
    /\ LET ch == chains[c]
           run == set(state, ch.id, ch.value, ch.retries + 1)
       IN  IF NeedsRetry(state, ch.id, ch.value)
           THEN /\ thrown' = run.thrown
                /\ written' = Tag(c, run.writes)
                /\ chains' = [chains EXCEPT ![c] =
                                 [ch EXCEPT !.retries = ch.retries + 1,
                                            !.writes = ch.writes + Len(run.writes),
                                            !.timer = run.timer,
                                            !.delays = IF run.timer = 0 THEN ch.delays
                                                       ELSE Append(ch.delays, run.timer)]]
           ELSE /\ thrown' = NoThrow
                /\ written' = <<>>
                /\ chains' = [chains EXCEPT ![c] = [ch EXCEPT !.timer = 0, !.matched = TRUE]]
    /\ last' = Step("timer", c, <<>>)
    /\ emitted' = <<>>
    /\ logged' = <<>>
    /\ UNCHANGED <<device, calls, nGroups, connected, discovery, groups, state, counter, reads>>

Next ==
    \/ Connect
    \/ \E i \in 0..(nGroups - 1) : DiscoveryOk(i)
    \/ \E i \in 0..(nGroups - 1) : DiscoveryError(i)
    \/ updateState
    \/ updateCount
    \/ \E k \in 1..Len(reads) : StateReadOk(k)
    \/ \E k \in 1..Len(reads) : StateReadError(k)
    \/ \E k \in 1..Len(reads) : CountReadOk(k)
    \/ \E k \in 1..Len(reads) : CountReadError(k)
    \/ \E id \in CallIds, value \in BOOLEAN : SetPoint(id, value)
    \/ \E c \in 1..Len(chains) : TimerFires(c)

Spec == Init /\ [][Next]_vars

\* ------------------------------------------------------------ SpecCoil
\* The coil address as a function of the id: boards of up to MaxGroupId
\* groups of two outputs each.  Discovery has completed and updateState has
\* been called; the read of the last group has delivered <<0, 0>>, the reads
\* of the groups before it are still outstanding.  The application then
\* calls set on the cached ids.
TwoOutputs == <<2, 4660>>

AllDiscovered(n) == [i \in 0..(n - 1) |-> Capability(i, TwoOutputs[1], TwoOutputs[2])]

InitCoil ==
    /\ nGroups \in 1..MaxGroupId
    /\ device = [i \in 1..nGroups |-> TwoOutputs]
    /\ calls = 1
    /\ connected = TRUE
    /\ discovery = {}
    /\ groups = AllDiscovered(nGroups)
    /\ state = StateCallback(<<>>, groups[nGroups - 1], 0, <<0, 0>>).state
    /\ counter = <<>>
    /\ reads = Without(StateReadsIssued(groups), nGroups)
    /\ emitted = <<>>
    /\ last = Step("StateReadOk", nGroups, <<0, 0>>)
    /\ thrown = NoThrow
    /\ logged = <<>>
    /\ chains = <<>>
    /\ written = <<>>

NextCoil ==
    \/ \E id \in CallIds, value \in BOOLEAN : SetPoint(id, value)
    \/ \E c \in 1..Len(chains) : TimerFires(c)

SpecCoil == InitCoil /\ [][NextCoil]_vars

\* ------------------------------------------------------------ discovery alone
\* Words a capability register may hold: 0x0000, 0x0001, 0x0102, 0x1234,
\* 0xABCD and 0xFFFF.
CapabilityWords == {0, 1, 258, 4660, 43981, 65535}

\* Boards of one group holding any two of the words, and of two groups
\* holding them in either order.
CapabilityBoards ==
    {<<<<a, b>>>> : a \in CapabilityWords, b \in CapabilityWords}
        \cup {<<<<a, b>>, <<b, a>>>> : a \in CapabilityWords, b \in CapabilityWords}

InitCapability == \E d \in CapabilityBoards : Constructed([device |-> d, calls |-> 0])

NextCapability ==
    \/ Connect
    \/ \E i \in 0..(nGroups - 1) : DiscoveryOk(i)
    \/ \E i \in 0..(nGroups - 1) : DiscoveryError(i)

SpecCapability == InitCapability /\ [][NextCapability]_vars

\* ------------------------------------------------------------ setPoint alone
\* 0x0101: a board of one input and one output.
InputAndOutput == <<<<257, 4660>>>>

\* The application sets points twice on the board of one output, or once on
\* the board that has an input too.
SetScenarios ==
    {[device |-> OneGroup, calls |-> 2], [device |-> InputAndOutput, calls |-> 1]}

InitSet == \E s \in SetScenarios : Constructed(s)

SpecSet == InitSet /\ [][Next]_vars

\* ------------------------------------------------------------ claims
Chain(c) == chains[c]

\* C1: a setPoint chain whose cached state never equals the value makes
\* exactly 6 coil writes (retries 0..5) and schedules exactly 5 timers, of
\* 100, 200, 300, 400 and 500 ms in that order; after the 6th write no timer
\* is pending, so nothing is written any more.
C1_SixWritesFiveTimers ==
    \A c \in 1..Len(chains) :
        /\ Chain(c).writes = Chain(c).retries + 1
        /\ Chain(c).writes <= 6
        /\ Chain(c).delays = [k \in 1..Len(Chain(c).delays) |-> 100 * k]
        /\ Chain(c).timer # 0 =>
              /\ Chain(c).timer = 100 * (Chain(c).retries + 1)
              /\ Len(Chain(c).delays) = Chain(c).retries + 1
        /\ (Chain(c).timer = 0 /\ ~Chain(c).matched) =>
              /\ Chain(c).writes = 6
              /\ Chain(c).delays = <<100, 200, 300, 400, 500>>

\* A chain ran out of retries: never matched, 6 writes made, no timer left.
C1_Witness ==
    \E c \in 1..Len(chains) :
        Chain(c).timer = 0 /\ ~Chain(c).matched /\ Chain(c).writes = 6

\* C2: an accepted setPoint call makes exactly one coil write at once and
\* schedules one verification, of 100 ms; a timer that fires while the
\* cached state, as a boolean, equals the value ends its chain: that step
\* writes nothing and leaves no timer, and a chain without a timer never
\* writes or schedules again, whatever its retry counter.
C2_StopsOnMatch ==
    [][/\ Len(chains') = Len(chains) + 1 =>
            /\ Len(written') = 1
            /\ written'[1].chain = Len(chains')
            /\ written'[1].value = chains'[Len(chains')].value
            /\ chains'[Len(chains')].writes = 1
            /\ chains'[Len(chains')].timer = 100
            /\ chains'[Len(chains')].delays = <<100>>
       /\ \A c \in 1..Len(chains) :
            /\ (/\ last'.op = "timer"
                /\ last'.group = c
                /\ ToBoolean(getState(state, Chain(c).id)) = Chain(c).value) =>
                  /\ written' = <<>>
                  /\ chains'[c].timer = 0
                  /\ chains'[c].writes = Chain(c).writes
            /\ Chain(c).timer = 0 =>
                  /\ chains'[c] = Chain(c)
                  /\ \A k \in 1..Len(written') : written'[k].chain # c]_vars

\* A chain stopped by a match after at least one retry.
C2_Witness ==
    \E c \in 1..Len(chains) :
        Chain(c).matched /\ Chain(c).timer = 0 /\ Chain(c).retries >= 1

\* C3: setPoint on an id without a cached state throws the unknown-id error
\* at the call: it writes no coil, schedules no timer and leaves the state
\* and counter caches as they were; a call that is accepted is on a cached id.
C3_UnknownIdRejected ==
    [][last'.op = "set" =>
          IF thrown' # NoThrow
          THEN /\ thrown'[1] = "SyntaxError"
               /\ getState(state, thrown'[2]) = Undefined
               /\ written' = <<>>
               /\ chains' = chains
               /\ state' = state
               /\ counter' = counter
          ELSE /\ Len(chains') = Len(chains) + 1
               /\ getState(state, chains'[Len(chains')].id) # Undefined]_vars

\* A call was rejected although other ids are cached.
C3_Witness == last.op = "set" /\ thrown[1] = "SyntaxError" /\ DOMAIN state # {}

\* The positions in a sequence of notifications that are about id.
EventsFor(events, id) == {k \in 1..Len(events) : events[k].id = id}

\* C4: a step emits 'update' for an id exactly when the id had a cached
\* value and the step changed it, once, carrying the new value as a string;
\* a first observation and an observation of the cached value emit nothing.
C4_UpdateIffChanged ==
    [][\A id \in DOMAIN state' :
          IF id \in DOMAIN state /\ state'[id] # state[id]
          THEN /\ Cardinality(EventsFor(emitted', id)) = 1
               /\ \A k \in EventsFor(emitted', id) :
                     emitted'[k].value = ValueToString(state'[id])
          ELSE EventsFor(emitted', id) = {}]_vars

\* C5: when a successful states read of a group delivers the same words as
\* the successful states read of that group handled just before it, the
\* second one emits nothing and leaves the state cache as it was.
C5_SamePollIdempotent ==
    [][(last.op = "StateReadOk" /\ last'.op = last.op /\ last'.group = last.group
            /\ last'.data = last.data) =>
          (emitted' = <<>> /\ state' = state)]_vars

\* C6: every value in the state cache is 0 or 1.
C6_ValuesAreBits == \A id \in DOMAIN state : state[id] \in {Num(0), Num(1)}

\* C7: once every capability read has completed, a poll issues a register
\* read for every group whose capability was recorded, whichever slots failed.
C7_FailedGroupAlone ==
    [][(discovery = {} /\ last'.op \in {"updateState", "updateCount"}) =>
          \A i \in DOMAIN groups :
              \E k \in (Len(reads) + 1)..Len(reads') : reads'[k].group = groups[i]]_vars

\* C8: a states read that completes with a transport error changes and
\* removes no entry of the state cache and emits no notification.
C8_ErrorLeavesCache ==
    [][last'.op = "StateReadError" => (state' = state /\ emitted' = <<>>)]_vars

\* A states read failed while the cache held values.
C8_Witness == last.op = "StateReadError" /\ DOMAIN state # {}

\* Bit b of a register word, bit 0 the least significant.
Bit(word, b) == (word \div (2 ^ b)) % 2

\* The ids a group's capability record allows.
GroupIds(group) ==
    {PointId(GroupPrefix(DI, group.id), k) : k \in 1..group.di}
        \cup {PointId(GroupPrefix(DO, group.id), k) : k \in 1..group.do}

\* C9: after a successful states read of group g, DI<g>.<k> is bit k-1 of
\* the first word for every k up to the input count and DO<g>.<k> is bit k-1
\* of the second word for every k up to the output count; the cache holds no
\* id beyond the counts of the recorded groups.
C9_CacheEqualsBits ==
    /\ last.op = "StateReadOk" =>
          LET group == groups[last.group - 1]
          IN  /\ \A k \in 1..group.di :
                    getState(state, PointId(GroupPrefix(DI, group.id), k))
                        = Num(Bit(last.data[1], k - 1))
              /\ \A k \in 1..group.do :
                    getState(state, PointId(GroupPrefix(DO, group.id), k))
                        = Num(Bit(last.data[2], k - 1))
    /\ DOMAIN state \subseteq UNION {GroupIds(groups[i]) : i \in DOMAIN groups}

\* The decimal group and index an id names: <2 letters><group>.<index>.
IdGroup(id) == DecimalValue(SubSeq(id, 3, FirstDot(id) - 1))

IdIndex(id) == DecimalValue(SubSeq(id, FirstDot(id) + 1, Len(id)))

\* C10: every coil write of a chain on id <prefix><g>.<n> goes to address
\* (g-1)*100 + (n-1) and carries the chain's value, for groups of any
\* number of digits.
C10_CoilAddress ==
    \A k \in 1..Len(written) :
        /\ written[k].coilId
              = Num((IdGroup(Chain(written[k].chain).id) - 1) * 100
                    + (IdIndex(Chain(written[k].chain).id) - 1))
        /\ written[k].value = Chain(written[k].chain).value

\* The ids notified by the first k notifications of a step.
NotifiedUpTo(events, k) == {events[j].id : j \in 1..k}

\* C11: whoever observes the cache of a group, the listener of an 'update'
\* notification emitted while a states read completes included, finds either
\* every value as it was before the completion or every value as it is after
\* it.
C11_NoMixObserved ==
    [][\A k \in 1..Len(emitted') :
          LET seenByListener == emitted'[k].cache
              ids == {id \in DOMAIN state : IdGroup(id) = last'.group}
          IN  \/ \A id \in ids : seenByListener[id] = state[id]
              \/ \A id \in ids : seenByListener[id] = state'[id]]_vars

\* C11 as amended: an observer that runs between two callbacks finds all the
\* values of one completion; the listener of the k-th notification of a
\* completion finds the new value of the ids notified up to the k-th and the
\* old value of every other id, and an id that is not notified keeps its value.
C11_ListenerSeesPrefix ==
    [][\A k \in 1..Len(emitted') :
          LET seenByListener == emitted'[k].cache
          IN  /\ DOMAIN seenByListener = DOMAIN state
              /\ DOMAIN state' = DOMAIN state
              /\ \A id \in DOMAIN state :
                    /\ seenByListener[id] =
                          IF id \in NotifiedUpTo(emitted', k) THEN state'[id] ELSE state[id]
                    /\ id \notin NotifiedUpTo(emitted', Len(emitted')) =>
                          state'[id] = state[id]]_vars

\* A completion that notified twice, whose first listener found a cache that
\* is not the one the completion left.
C11_Witness ==
    /\ last.op = "StateReadOk"
    /\ Len(emitted) >= 2
    /\ emitted[1].cache # state
    /\ emitted[1].cache[emitted[1].id] = state[emitted[1].id]

\* C12: no step removes a key from the state cache or from the counter cache,
\* so once an id is known it stays known, and a retry issued by a verification
\* timer never fails the validation its initial call passed.
C12_KeysPersist ==
    [][/\ DOMAIN state \subseteq DOMAIN state'
       /\ DOMAIN counter \subseteq DOMAIN counter'
       /\ \A id \in DOMAIN state : validate(state', id) = NoThrow
       /\ last'.op = "timer" => thrown' = NoThrow]_vars

\* A timer retried the write of a known id.
C12_Witness ==
    /\ last.op = "timer"
    /\ written # <<>>
    /\ thrown = NoThrow
    /\ \E c \in 1..Len(chains) : chains[c].id \in DOMAIN state /\ chains[c].retries >= 1

\* C13: the completion of the capability read of slot i writes slot i of the
\* group list only, and a poll made while capability reads are outstanding
\* does not fail and issues a read for exactly the groups already recorded.
C13_PollDuringDiscovery ==
    [][/\ last'.op = "DiscoveryOk" =>
             /\ DOMAIN groups' = DOMAIN groups \cup {last'.group - 1}
             /\ \A j \in DOMAIN groups : j # last'.group - 1 => groups'[j] = groups[j]
       /\ (discovery # {} /\ last'.op \in {"updateState", "updateCount"}) =>
             /\ thrown' = NoThrow
             /\ {reads'[k].group : k \in (Len(reads) + 1)..Len(reads')}
                   = {groups[i] : i \in DOMAIN groups}]_vars

\* C14: with bit 0 the least-significant bit of a word, the record of slot i
\* holds the words read at 1001 + i*100 split as: input count bits 0-7 and
\* output count bits 8-15 of the first word; serial count bits 0-3, analog
\* input count bits 4-7 and analog output count bits 8-15 of the second word.
C14_LowBitsFirst ==
    \A i \in DOMAIN groups :
        LET data == DeviceWords(1001 + i * 100)
        IN  groups[i] = [id |-> i + 1,
                         di |-> data[1] % 256,
                         do |-> data[1] \div 256,
                         serial |-> data[2] % 16,
                         ai |-> (data[2] \div 16) % 16,
                         ao |-> data[2] \div 256]

\* C14 as amended: the input count is bits 8-15 and the output count bits 0-7
\* of the first word; the serial count is bits 12-15, the analog input count
\* bits 8-11 and the analog output count bits 0-7 of the second word.
C14_HighBitsFirst ==
    \A i \in DOMAIN groups :
        LET data == DeviceWords(1001 + i * 100)
        IN  groups[i] = [id |-> i + 1,
                         di |-> data[1] \div 256,
                         do |-> data[1] % 256,
                         serial |-> data[2] \div 4096,
                         ai |-> (data[2] \div 256) % 16,
                         ao |-> data[2] % 256]

\* The second slot is recorded from words whose fields all differ.
C14_Witness ==
    /\ last.op = "DiscoveryOk"
    /\ last.data = <<258, 43981>>
    /\ 1 \in DOMAIN groups
    /\ groups[1].di = 1 /\ groups[1].do = 2
    /\ groups[1].serial = 10 /\ groups[1].ai = 11 /\ groups[1].ao = 205

\* C15: two setPoint calls on the same id run their retry chains
\* independently: a step of one chain, and a new call, leave every other
\* chain as it was; a timer of a chain writes that chain's value, and it
\* writes exactly when the cached state as a boolean differs from that value,
\* whatever the other chain asked for; each chain makes at most 6 writes.
C15_ChainsIndependent ==
    [][/\ \A c \in 1..Len(chains) :
             /\ (last'.op # "timer" \/ last'.group # c) => chains'[c] = chains[c]
             /\ (last'.op = "timer" /\ last'.group = c) =>
                   /\ written' # <<>> <=>
                         ToBoolean(getState(state, chains[c].id)) # chains[c].value
                   /\ \A k \in 1..Len(written') :
                         written'[k].chain = c /\ written'[k].value = chains[c].value
       /\ \A c \in 1..Len(chains') : chains'[c].writes <= 6]_vars

\* The earlier chain retries its write, with its own value, after the later
\* call on the same id has made its initial write of the opposite value.
C15_Witness ==
    /\ last.op = "timer"
    /\ last.group = 1
    /\ Len(chains) = 2
    /\ chains[2].id = chains[1].id
    /\ chains[2].value # chains[1].value
    /\ chains[2].writes >= 1
    /\ Len(written) = 1
    /\ written[1].chain = 1
    /\ written[1].value = chains[1].value

\* What the two words of a states read of a group decode to.
Decoded(group, data) == StoreStates(<<>>, group, data[1], data[2]).state

\* C16: after a states read of a group has completed, the cached value of
\* each of the group's points is the one decoded from that response, also
\* when the response is that of an older read, completing after the response
\* of a read dispatched later: the response handled last wins.
C16_LastCompletedWins ==
    last.op = "StateReadOk" =>
        LET decoded == Decoded(groups[last.group - 1], last.data)
        IN  \A id \in DOMAIN decoded : id \in DOMAIN state /\ state[id] = decoded[id]

\* The response of an older read, handled after that of a newer read of the
\* same group, changed a cached bit.
C16_Witness ==
    /\ last.op = "StateReadOk"
    /\ last.late
    /\ \E k \in 1..Len(emitted) : emitted[k].seen \in {Num(0), Num(1)}

\* The ids of a cache whose value a step changed or added.
Changed(old, new) == {id \in DOMAIN new : id \notin DOMAIN old \/ new[id] # old[id]}

\* C17: the completion of a states read changes state-cache entries of its
\* group only and leaves the counters alone; the completion of a counters
\* read changes counter entries of its group only, leaves the state cache
\* alone and emits nothing; neither changes the capability list; a counters
\* read that fails changes nothing.
C17_DisjointData ==
    [][/\ last'.op \in {"StateReadOk", "StateReadError"} =>
             /\ counter' = counter
             /\ groups' = groups
             /\ \A id \in Changed(state, state') : IdGroup(id) = last'.group
       /\ last'.op \in {"CountReadOk", "CountReadError"} =>
             /\ state' = state
             /\ groups' = groups
             /\ emitted' = <<>>
             /\ \A id \in Changed(counter, counter') : IdGroup(id) = last'.group
       /\ last'.op = "CountReadError" => counter' = counter]_vars

\* A counters read completed and stored counters while a states read of the
\* same board was outstanding.
C17_Witness ==
    /\ last.op = "CountReadOk"
    /\ counter # <<>>
    /\ state # <<>>
    /\ \E k \in 1..Len(reads) : reads[k].kind = "state"

\* C18: a failed register read whose error code is one the exception table
\* knows is reported by the table's description of that code; the raw error
\* is reported for an unknown code only.
C18_KnownCodesDescribed ==
    \A k \in 1..Len(logged) :
        logged[k] = IF logged[k][2] \in MODUS_ERRNO
                    THEN <<"description", logged[k][2]>>
                    ELSE <<"raw", logged[k][2]>>

\* C19: when an 'update' notification for an id reaches its listener,
\* getState(id) returns the notified value (the notification carries it as a
\* string): the value is stored before the notification is emitted.
C19_StoredBeforeEmitted ==
    \A k \in 1..Len(emitted) :
        /\ ValueToString(emitted[k].seen) = emitted[k].value
        /\ emitted[k].seen = getState(emitted[k].cache, emitted[k].id)
        /\ emitted[k].seen # Undefined

\* A states read notified the change of a bit.
C19_Witness ==
    /\ last.op = "StateReadOk"
    /\ \E k \in 1..Len(emitted) :
          /\ emitted[k].value \in {ValueToString(Num(0)), ValueToString(Num(1))}
          /\ state[emitted[k].id] = emitted[k].seen

\* The ids of digital inputs the cache holds.
InputIds == {id \in DOMAIN state : SubSeq(id, 1, 2) = DI}

\* The group digit of an id: the character before its first '.'.
GroupDigit(id) == DigitValue(id[FirstDot(id) - 1])

\* The id of the output with the group and index of id.
OutputTwin(id) == PointId(GroupPrefix(DO, IdGroup(id)), IdIndex(id))

\* C20: the coil address of a write depends on the group digit and the index
\* of the id only: a setPoint call on an observed input id DI<g>.<n> is
\* accepted and writes the coil (g-1)*100 + (n-1), the address of DO<g>.<n>;
\* its timers rewrite that coil exactly while the cached input value as a
\* boolean differs from the value asked for, and its chain makes at most 6
\* writes, 6 when the values never agree.
C20_PrefixIgnored ==
    [][/\ \A id \in InputIds :
             /\ validate(state, id) = NoThrow
             /\ CoilId(id) = CoilId(OutputTwin(id))
       /\ \A k \in 1..Len(written') :
             LET id == chains'[written'[k].chain].id
             IN  written'[k].coilId = Num((GroupDigit(id) - 1) * 100 + (IdIndex(id) - 1))
       /\ \A c \in 1..Len(chains') :
             chains'[c].id \in InputIds =>
                /\ chains'[c].writes <= 6
                /\ (chains'[c].timer = 0 /\ ~chains'[c].matched) => chains'[c].writes = 6
                /\ (last'.op = "timer" /\ last'.group = c) =>
                      (written' # <<>> <=>
                          ToBoolean(getState(state, chains[c].id)) # chains[c].value)]_vars

\* A call on an observed input id was accepted and made all its 6 writes.
C20_Witness ==
    \E c \in 1..Len(chains) :
        /\ chains[c].id \in InputIds
        /\ chains[c].writes = 6
        /\ chains[c].timer = 0
        /\ ~chains[c].matched
        /\ Len(written) = 1
        /\ written[1].coilId = Num(0)

====
